---- MODULE Spec2Model ----
(***************************************************************************)
(* Model of custom_components/sensor/eastmoney.py: the fund sensor that    *)
(* scrapes a quotation page (EastmoneyData), and the entity that presents  *)
(* it (EastmoneySensor).                                                   *)
(*                                                                         *)
(* Text is a sequence of one-character strings, so that split, strip,      *)
(* slicing, float() and the date pattern are computed and not assumed.     *)
(* Python's None is None below where a text may stand, and Nothing where   *)
(* an element, a list or a dict may: TLC does not hold a record and a      *)
(* sequence in one set.  Neither is a character sequence.                  *)
(* A function that may raise returns [exc, ret]: exc is TRUE when an       *)
(* exception leaves it, ret is its return value otherwise.                 *)
(***************************************************************************)
EXTENDS Integers, Sequences, FiniteSets, TLC

None == <<"None">>

Nothing == [none |-> TRUE]

Raise == [exc |-> TRUE, ret |-> None]

Return(v) == [exc |-> FALSE, ret |-> v]

(***************************************************************************)
(* Python built-ins used by the module, on character sequences.            *)
(***************************************************************************)
Digits == {"0", "1", "2", "3", "4", "5", "6", "7", "8", "9"}

\* Index of the first c in s, 0 when there is none.
RECURSIVE IndexOf(_, _, _)
IndexOf(s, c, i) ==
    IF i > Len(s) THEN 0
    ELSE IF s[i] = c THEN i
    ELSE IndexOf(s, c, i + 1)

\* str.split(c): one part more than there are c's in s.
RECURSIVE Split(_, _)
Split(s, c) ==
    LET i == IndexOf(s, c, 1)
    IN  IF i = 0 THEN <<s>>
        ELSE <<SubSeq(s, 1, i - 1)>> \o Split(SubSeq(s, i + 1, Len(s)), c)

\* str.lstrip(c): every leading c removed.
RECURSIVE LStrip(_, _)
LStrip(s, c) ==
    IF Len(s) > 0 /\ s[1] = c THEN LStrip(Tail(s), c) ELSE s

\* str.rstrip(c): every trailing c removed.
RECURSIVE RStrip(_, _)
RStrip(s, c) ==
    IF Len(s) > 0 /\ s[Len(s)] = c THEN RStrip(SubSeq(s, 1, Len(s) - 1), c) ELSE s

\* s[0:-1]: all but the last character (empty stays empty).
ButLast(s) == SubSeq(s, 1, Len(s) - 1)

AllDigits(s) == \A i \in 1..Len(s) : s[i] \in Digits

AllZero(s) == \A i \in 1..Len(s) : s[i] \in {"0", "."}

\* An unsigned decimal literal: digits, with at most one point, and at least
\* one digit ("5", "1.2", "1.", ".5").
IsDecimal(s) ==
    LET p == IndexOf(s, ".", 1)
        int == IF p = 0 THEN s ELSE SubSeq(s, 1, p - 1)
        frac == IF p = 0 THEN <<>> ELSE SubSeq(s, p + 1, Len(s))
    IN  /\ AllDigits(int)
        /\ AllDigits(frac)
        /\ Len(int) + Len(frac) > 0

\* float(x): TypeError on None, ValueError on text that is no number;
\* otherwise ret is the sign of the number: -1, 0 or 1 (float("-0.0") is
\* -0.0, which is neither < 0 nor > 0). The texts of Pages hold no blanks,
\* exponents, "inf" or "nan", the other forms float() accepts.
float(x) ==
    IF x = None THEN Raise
    ELSE LET signed == Len(x) > 0 /\ x[1] \in {"-", "+"}
             body == IF signed THEN Tail(x) ELSE x
         IN  IF ~IsDecimal(body) THEN Raise
             ELSE IF AllZero(body) THEN Return(0)
             ELSE IF signed /\ x[1] = "-" THEN Return(-1)
             ELSE Return(1)

\* Whether PAT_DATE, \d{4}-\d{1,2}-\d{1,2}, matches s at position i, and the
\* end of the (greedy) match; 0 when it does not match there.
MatchDateAt(s, i) ==
    LET D(k) == k <= Len(s) /\ s[k] \in Digits
        H(k) == k <= Len(s) /\ s[k] = "-"
        \* position of the second "-": the month is two digits if a "-"
        \* follows them, else one digit followed by "-"
        m1 == IF D(i + 5) /\ D(i + 6) /\ H(i + 7) THEN i + 7
              ELSE IF D(i + 5) /\ H(i + 6) THEN i + 6
              ELSE 0
    IN  IF ~(D(i) /\ D(i + 1) /\ D(i + 2) /\ D(i + 3) /\ H(i + 4)) THEN 0
        ELSE IF m1 = 0 THEN 0
        ELSE IF D(m1 + 1) /\ D(m1 + 2) THEN m1 + 2
        ELSE IF D(m1 + 1) THEN m1 + 1
        ELSE 0

\* re.findall(PAT_DATE, s)[0]: the first match, IndexError when none.
RECURSIVE FirstDate(_, _)
FirstDate(s, i) ==
    IF i > Len(s) THEN Raise
    ELSE LET e == MatchDateAt(s, i)
         IN  IF e # 0 THEN Return(SubSeq(s, i, e)) ELSE FirstDate(s, i + 1)

(***************************************************************************)
(* The fetched page.  A response is [error, soup]: error names the         *)
(* exception requests.get raised ("none": it returned), soup is what       *)
(* BeautifulSoup's find/find_all see:                                      *)
(*   soup.fundDetail_tit  Nothing, or [div: None or the title's text]      *)
(*   soup.fundInfoItem    Nothing, or [dataOfFund: Nothing or              *)
(*                           [dataItem01: Nothing or dl, dataItem02: ...]] *)
(*   dl                   [gz_gztime, dt: None or text, dd: sequence]      *)
(*   dd                   one field per span the code looks for, None or   *)
(*                        the span's text                                  *)
(***************************************************************************)
FIND_LARGE_GREEN(dd) == dd.large_green

FIND_LARGE_RED(dd) == dd.large_red

FIND_MIDDLE_GREEN(dd) == dd.middle_green

FIND_MIDDLE_RED(dd) == dd.middle_red

\* x = find(first); if x is None: x = find(second)
FindEither(first, second) == IF first # None THEN first ELSE second

\* if x is not None: x = x.text (the model holds the text already)
TextOf(x) == x

(***************************************************************************)
(* EastmoneyData                                                           *)
(***************************************************************************)
\* Lines 212-214: float(nav_rate[0:-1]) < 0 decides the prefix. None[0:-1]
\* and '-' + None are TypeErrors, float() of no number a ValueError.
\* Prefixed with <= for <: a rate of zero gets the prefix too.
PrefixedUnlessPositive(rate, nav_growth) ==
    IF rate.exc THEN Raise
    ELSE IF rate.ret <= 0
         THEN IF nav_growth = None THEN Raise
              ELSE Return(<<"-">> \o nav_growth)
    ELSE Return(nav_growth)

Prefixed(rate, nav_growth) ==
    IF rate.exc THEN Raise
    ELSE IF rate.ret < 0
         THEN IF nav_growth = None THEN Raise
              ELSE Return(<<"-">> \o nav_growth)
    ELSE Return(nav_growth)

CorrectGrowth(nav_rate, nav_growth) ==
    IF nav_rate = None THEN Raise
    ELSE Prefixed(float(ButLast(nav_rate)), nav_growth)

\* Line 215, growth being what lines 212-214 made of nav_growth.
EstNav(nav_time, nav, growth, nav_rate, rct_1month, rct_1year) ==
    IF growth.exc THEN Raise
    ELSE Return([enav_time |-> nav_time, enav |-> nav, enav_growth |-> growth.ret,
                 enav_rate |-> nav_rate, rct_1month |-> rct_1month,
                 rct_1year |-> rct_1year])

_get_estnav(estnav_data) ==
    LET dds == estnav_data.dd
    IN  IF Len(dds) # 3 THEN Return(Nothing)
        ELSE
        LET nav == TextOf(dds[1].gz_gsz)
            nav_growth == TextOf(dds[1].gz_gszze)
            nav_rate == TextOf(dds[1].gz_gszzl)
            rct_1month == FindEither(FIND_MIDDLE_GREEN(dds[2]), FIND_MIDDLE_RED(dds[2]))
            rct_1year == FindEither(FIND_MIDDLE_GREEN(dds[3]), FIND_MIDDLE_RED(dds[3]))
            nav_time == IF estnav_data.gz_gztime # None
                        THEN RStrip(LStrip(estnav_data.gz_gztime, "("), ")")
                        ELSE None
        IN  IF nav = None \/ nav_time = None THEN Return(Nothing)
            ELSE EstNav(nav_time, nav, CorrectGrowth(nav_rate, nav_growth), nav_rate,
                        TextOf(rct_1month), TextOf(rct_1year))

\* Lines 229-230: one lookup each, green for rct_3month, red for rct_3year.
Find3Month(dd) == FIND_MIDDLE_GREEN(dd)

Find3Year(dd) == FIND_MIDDLE_RED(dd)

\* Lines 241-243, date being what lines 231-232 made of the dt.
Nav(date, nav, nav_rate, rct_3month, rct_3year) ==
    IF date.exc THEN Raise
    ELSE IF nav = None \/ date.ret = None THEN Return(Nothing)
    ELSE Return([nav_date |-> date.ret, nav |-> nav, nav_rate |-> nav_rate,
                 rct_3month |-> rct_3month, rct_3year |-> rct_3year])

_get_nav(nav_data) ==
    LET dds == nav_data.dd
    IN  IF Len(dds) # 3 THEN Return(Nothing)
        ELSE
        LET nav == FindEither(FIND_LARGE_GREEN(dds[1]), FIND_LARGE_RED(dds[1]))
            nav_rate == FindEither(FIND_MIDDLE_GREEN(dds[1]), FIND_MIDDLE_RED(dds[1]))
            rct_3month == Find3Month(dds[2])
            rct_3year == Find3Year(dds[3])
        IN  Nav(IF nav_data.dt # None THEN FirstDate(nav_data.dt, 1) ELSE Return(None),
                TextOf(nav), TextOf(nav_rate), TextOf(rct_3month), TextOf(rct_3year))

\* Lines 179-181 of _analyze: both groups, or nothing.
Snapshot(est_nav, nav) ==
    IF est_nav = Nothing \/ nav = Nothing THEN Nothing
    ELSE [est_nav |-> est_nav, nav |-> nav, last_update |-> est_nav.enav_time]

Assembled(est_nav, nav) ==
    IF nav.exc THEN Raise ELSE Return(Snapshot(est_nav, nav.ret))

\* Line 178 on: _get_nav is called once _get_estnav has returned.
WithNav(est_nav, nav_data) ==
    IF est_nav.exc THEN Raise
    ELSE Assembled(est_nav.ret, _get_nav(nav_data))

_analyze(soup) ==
    IF soup.fundInfoItem = Nothing THEN Return(Nothing)
    ELSE IF soup.fundInfoItem.dataOfFund = Nothing THEN Return(Nothing)
    ELSE LET fund_data == soup.fundInfoItem.dataOfFund
         IN  IF fund_data.dataItem01 = Nothing \/ fund_data.dataItem02 = Nothing
             THEN Return(Nothing)
             ELSE WithNav(_get_estnav(fund_data.dataItem01), fund_data.dataItem02)

\* The list split() returns is held as [list |-> parts].
_get_fund_tit(soup) ==
    IF soup.fundDetail_tit = Nothing THEN Nothing
    ELSE IF soup.fundDetail_tit.div = None THEN Nothing
    ELSE [list |-> Split(soup.fundDetail_tit.div, "(")]

\* The exceptions _update catches around requests.get.
CaughtErrors == {"ConnectError", "HTTPError", "Timeout", "ValueError"}

\* OnInvalidFundId clearing the Snapshot of a page that is not the fund's.
ClearOnInvalidFundId(data) == Nothing

\* The else branch of _update (line 150): the error is logged, self.data stays.
OnInvalidFundId(data) == data

\* Assigned updating the held Snapshot group by group: the settled group
\* is replaced, the estimate group of the Snapshot held is kept.
AssignedInPlace(data, analyzed) ==
    IF analyzed.exc THEN [exc |-> TRUE, ret |-> data]
    ELSE IF data # Nothing /\ analyzed.ret # Nothing
         THEN Return([analyzed.ret EXCEPT !.est_nav = data.est_nav])
    ELSE Return(analyzed.ret)

\* Line 148: self.data = self._analyze(soup).
Assigned(data, analyzed) ==
    IF analyzed.exc THEN [exc |-> TRUE, ret |-> data] ELSE Return(analyzed.ret)

ValidFundId(tit, fund_id) == tit # Nothing /\ Len(tit.list) = 2 /\ tit.list[2] = fund_id

\* _update: ret is self.data when it ends; an exception leaves self.data as
\* it was, the assignment of line 148 not having happened.
_update(data, fund_id, resp) ==
    IF resp.error \in CaughtErrors THEN Return(data)
    ELSE IF ValidFundId(_get_fund_tit(resp.soup), fund_id)
         THEN Assigned(data, _analyze(resp.soup))
         ELSE Return(OnInvalidFundId(data))

(***************************************************************************)
(* update = Throttle(interval)(self._update), line 131.  The wrapper of    *)
(* homeassistant.util.Throttle keeps the time of the last call it let      *)
(* through and runs the method when there was none or when more than the   *)
(* interval has passed since:                                              *)
(*     force = ... or not throttle[1]                                      *)
(*     if force or utcnow() - throttle[1] > self.min_time:                 *)
(*         result = method(...)                                            *)
(*         throttle[1] = utcnow()                                          *)
(* The time is stored after the method has returned, so a call that raises *)
(* stores none.  throttle is [called, age]: whether a time is stored, and  *)
(* the ticks since.                                                        *)
(***************************************************************************)
ThrottleOpen(throttle, min_time) == ~throttle.called \/ throttle.age > min_time

\* The method was called and result is what it did: its time is stored if
\* it returned.
Called(result, throttle) ==
    [exc |-> result.exc, data |-> result.ret, fetched |-> TRUE,
     throttle |-> IF result.exc THEN throttle ELSE [called |-> TRUE, age |-> 0]]

\* fund_data.update(): [exc, data, throttle, fetched].
ThrottledUpdate(data, throttle, min_time, fund_id, resp) ==
    IF ThrottleOpen(throttle, min_time)
    THEN Called(_update(data, fund_id, resp), throttle)
    ELSE [exc |-> FALSE, data |-> data, fetched |-> FALSE, throttle |-> throttle]

(***************************************************************************)
(* EastmoneySensor                                                         *)
(***************************************************************************)
ATTRIBUTION == <<"E", "M">>

icon(trend) ==
    IF trend = 1 THEN "mdi:trending-up"
    ELSE IF trend = -1 THEN "mdi:trending-down"
    ELSE "mdi:trending-neutral"

device_state_attributes(data) ==
    IF data = Nothing THEN [attribution |-> ATTRIBUTION]
    ELSE [attribution |-> data.last_update \o <<" ">> \o ATTRIBUTION,
          est_growth |-> data.est_nav.enav_growth,
          est_growth_rate |-> data.est_nav.enav_rate,
          recent_1_month |-> data.est_nav.rct_1month,
          recent_1_year |-> data.est_nav.rct_1year,
          last_trading_day |-> data.nav.nav_date,
          last_nav |-> data.nav.nav,
          last_growth_rate |-> data.nav.nav_rate]

\* TrendOf without its last branch: what is not up is down.
TrendOfUpOrDown(growth) ==
    IF growth > 0 THEN 1 ELSE -1

\* Lines 117-122.
TrendOf(growth) ==
    IF growth > 0 THEN 1
    ELSE IF growth < 0 THEN -1
    ELSE 0

\* Lines 112-122 of EastmoneySensor.update, after fund_data.update() has
\* returned: float() raising leaves _trend as it was, _state being assigned
\* already.
Trended(growth, state, trend) ==
    [exc |-> growth.exc, state |-> state, found |-> TRUE,
     trend |-> IF growth.exc THEN trend ELSE TrendOf(growth.ret)]

Present(data, state, trend) ==
    IF data = Nothing THEN [exc |-> FALSE, state |-> state, trend |-> trend, found |-> FALSE]
    ELSE Trended(float(data.est_nav.enav_growth), data.est_nav.enav, trend)

\* EastmoneySensor.update: fund_data.update(), then lines 112-122. An
\* exception of fund_data.update() leaves the sensor as it was.
\* What EastmoneySensor.update did: exc, whether an exception left it, and
\* update_exc, whether it was fund_data.update() that raised it.
Updated(u, s) ==
    [exc |-> s.exc, update_exc |-> u.exc, data |-> u.data, throttle |-> u.throttle,
     fetched |-> u.fetched, state |-> s.state, trend |-> s.trend, found |-> s.found]

AfterUpdate(u, state, trend) ==
    Updated(u, IF u.exc
               THEN [exc |-> TRUE, state |-> state, trend |-> trend, found |-> FALSE]
               ELSE Present(u.data, state, trend))

SensorUpdate(data, throttle, state, trend, min_time, fund_id, resp) ==
    AfterUpdate(ThrottledUpdate(data, throttle, min_time, fund_id, resp), state, trend)

(***************************************************************************)
(* The pages the network may answer with.                                  *)
(***************************************************************************)
\* config[CONF_FUND_ID]
FundId == <<"0", "1">>

\* The largest configured update_interval, in ticks of the clock.
MaxInterval == 2

\* Two editions of the page: the estimate time and the settlement date of
\* an edition belong together.
Editions == {1, 2}

EditionDigit(e) == IF e = 1 THEN "1" ELSE "2"

EditionTime(e) == <<"9", ":", "3", EditionDigit(e)>>

EditionDate(e) == <<"2", "0", "2", "3", "-", "5", "-", EditionDigit(e)>>

\* The texts as the page has them, in parentheses.
TimeText(e) == <<"(">> \o EditionTime(e) \o <<")">>

DateText(e) == <<"(">> \o EditionDate(e) \o <<")">>

ValueText(e) == <<"1", ".", EditionDigit(e)>>

NavText == <<"1", ".", "0">>

GreenText == <<"-", "3", "%">>

RedText == <<"3", "%">>

NoNumber == <<"-", "-">>

Changes == {None, <<"5">>, <<"0">>, NoNumber}

Rates == {None, <<"-", "1", ".", "2", "%">>, <<"+", "1", ".", "2", "%">>,
          <<"0", ".", "0", "%">>, NoNumber}

Markers == {"none", "green", "red"}

NoDD == [gz_gsz |-> None, gz_gszze |-> None, gz_gszzl |-> None,
         large_green |-> None, large_red |-> None,
         middle_green |-> None, middle_red |-> None]

\* A dd whose figure carries marker m.
Middle(m) ==
    [NoDD EXCEPT !.middle_green = IF m = "green" THEN GreenText ELSE None,
                 !.middle_red = IF m = "red" THEN RedText ELSE None]

EstimateDL(time, value, change, rate, m1, m2) ==
    [gz_gztime |-> time, dt |-> None,
     dd |-> <<[NoDD EXCEPT !.gz_gsz = value, !.gz_gszze = change, !.gz_gszzl = rate],
              Middle(m1), Middle(m2)>>]

SettledDL(dt, large, middle, m3, y3) ==
    [gz_gztime |-> None, dt |-> dt,
     dd |-> <<[Middle(middle) EXCEPT !.large_green = IF large = "green" THEN NavText ELSE None,
                                     !.large_red = IF large = "red" THEN NavText ELSE None],
              Middle(m3), Middle(y3)>>]

GoodTitle == <<"F", "(">> \o FundId

Document(title, info) ==
    [error |-> "none", soup |-> [fundDetail_tit |-> title, fundInfoItem |-> info]]

Page(dl1, dl2) ==
    Document([div |-> GoodTitle], [dataOfFund |-> [dataItem01 |-> dl1, dataItem02 |-> dl2]])

BaseEstimate(e) == EstimateDL(TimeText(e), ValueText(e), <<"5">>, <<"-", "1", ".", "2", "%">>, "green", "red")

BaseSettled(e) == SettledDL(DateText(e), "red", "green", "green", "red")

\* The estimate's change and rate, present or not, numeric or not.
PagesChange ==
    {Page(EstimateDL(TimeText(1), ValueText(1), change, rate, "green", "red"), BaseSettled(1)) :
        change \in Changes, rate \in Rates}
    \cup {Page(EstimateDL(TimeText(2), ValueText(2), change, rate, "green", "red"), BaseSettled(2)) :
        change \in {<<"5">>, <<"0">>}, rate \in {<<"-", "1", ".", "2", "%">>, <<"+", "1", ".", "2", "%">>}}

\* The estimate's time or value missing.
PagesMandatory ==
    {Page(EstimateDL(time, value, <<"5">>, rate, "green", "red"), BaseSettled(1)) :
        time \in {TimeText(1), None}, value \in {ValueText(1), None},
        rate \in {None, <<"-", "1", ".", "2", "%">>}}

\* The markers of every figure that is looked up by marker.
PagesMarkers ==
    {Page(EstimateDL(TimeText(1), ValueText(1), <<"5">>, <<"+", "1", ".", "2", "%">>, m1, m2),
          BaseSettled(1)) : m1 \in Markers, m2 \in {"none", "red"}}
    \cup {Page(BaseEstimate(1), SettledDL(DateText(1), large, middle, "green", "red")) :
            large \in Markers, middle \in {"none", "green"}}
    \cup {Page(BaseEstimate(2), SettledDL(DateText(2), "red", "green", m3, y3)) :
            m3 \in Markers, y3 \in Markers}

\* A dl with one dd less, or one more.
Shorter(dl) == [dl EXCEPT !.dd = SubSeq(dl.dd, 1, 2)]

Longer(dl) == [dl EXCEPT !.dd = Append(dl.dd, NoDD)]

\* Containers and regions missing, dd counts other than three, the dt
\* missing or without a date.
PagesStructure ==
    {Document([div |-> GoodTitle], Nothing),
     Document([div |-> GoodTitle], [dataOfFund |-> Nothing]),
     Document([div |-> GoodTitle], [dataOfFund |-> [dataItem01 |-> Nothing, dataItem02 |-> BaseSettled(1)]]),
     Document([div |-> GoodTitle], [dataOfFund |-> [dataItem01 |-> BaseEstimate(1), dataItem02 |-> Nothing]]),
     Page(Shorter(BaseEstimate(1)), BaseSettled(1)),
     Page(Longer(BaseEstimate(1)), BaseSettled(1)),
     Page(BaseEstimate(1), Shorter(BaseSettled(1))),
     Page(BaseEstimate(1), Longer(BaseSettled(1))),
     Page(BaseEstimate(1), SettledDL(None, "red", "green", "green", "red")),
     Page(BaseEstimate(1), SettledDL(<<"n", "a">>, "red", "green", "green", "red"))}

GoodInfo == [dataOfFund |-> [dataItem01 |-> BaseEstimate(2), dataItem02 |-> BaseSettled(2)]]

\* The title region missing, without its div, with one part, with three,
\* and with another fund's id.
PagesTitle ==
    {Document(Nothing, GoodInfo),
     Document([div |-> None], GoodInfo),
     Document([div |-> <<"F">>], GoodInfo),
     Document([div |-> GoodTitle \o <<"(">>], GoodInfo),
     Document([div |-> <<"F", "(", "0", "2">>], GoodInfo)}

\* requests.get raised.
PagesTransport ==
    {[error |-> err, soup |-> Nothing] : err \in {"ConnectError", "HTTPError", "Timeout"}}

Pages ==
    PagesChange \cup PagesMandatory \cup PagesMarkers \cup PagesStructure
        \cup PagesTitle \cup PagesTransport

\* No request is made, so there is no answer.
Unasked == [error |-> "unasked", soup |-> Nothing]

\* What the network may answer a call of update() with.
Answers(throttle, min_time) ==
    IF ThrottleOpen(throttle, min_time) THEN Pages ELSE {Unasked}

(***************************************************************************)
(* What a poll is, told from the page alone: the observations below read   *)
(* the page, not the code's path through it.                               *)
(***************************************************************************)
TransportFailure(resp) == resp.error # "none"

\* The title region is there, splits into exactly two parts on "(", and the
\* second is the configured id.
PassesIdentity(resp) ==
    /\ resp.error = "none"
    /\ resp.soup.fundDetail_tit # Nothing
    /\ resp.soup.fundDetail_tit.div # None
    /\ LET parts == Split(resp.soup.fundDetail_tit.div, "(")
       IN  Len(parts) = 2 /\ parts[2] = FundId

HasRegions(soup) ==
    /\ soup.fundInfoItem # Nothing
    /\ soup.fundInfoItem.dataOfFund # Nothing
    /\ soup.fundInfoItem.dataOfFund.dataItem01 # Nothing
    /\ soup.fundInfoItem.dataOfFund.dataItem02 # Nothing

EstimateRegion(soup) == soup.fundInfoItem.dataOfFund.dataItem01

SettledRegion(soup) == soup.fundInfoItem.dataOfFund.dataItem02

\* A container or region missing, a region without three dd, or a mandatory
\* field (estimate value and time, settled value and date element) missing.
StructurallyDefective(resp) ==
    /\ PassesIdentity(resp)
    /\ \/ ~HasRegions(resp.soup)
       \/ Len(EstimateRegion(resp.soup).dd) # 3
       \/ Len(SettledRegion(resp.soup).dd) # 3
       \/ EstimateRegion(resp.soup).dd[1].gz_gsz = None
       \/ EstimateRegion(resp.soup).gz_gztime = None
       \/ SettledRegion(resp.soup).dt = None
       \/ /\ SettledRegion(resp.soup).dd[1].large_green = None
          /\ SettledRegion(resp.soup).dd[1].large_red = None

PollClass(resp) ==
    IF TransportFailure(resp) THEN "transport"
    ELSE IF ~PassesIdentity(resp) THEN "identity"
    ELSE IF StructurallyDefective(resp) THEN "structural"
    ELSE "other"

\* The marked text of a figure: the positive or the negative marker's,
\* whichever is present; None when neither is.
MarkedText(dd) ==
    IF dd.middle_green # None /\ dd.middle_red = None THEN dd.middle_green
    ELSE IF dd.middle_red # None /\ dd.middle_green = None THEN dd.middle_red
    ELSE None

\* The texts of the page a Snapshot was built from, as the page has them.
Extracted(resp) ==
    [change |-> EstimateRegion(resp.soup).dd[1].gz_gszze,
     rate |-> EstimateRegion(resp.soup).dd[1].gz_gszzl,
     settled_value |-> IF SettledRegion(resp.soup).dd[1].large_green # None
                       THEN SettledRegion(resp.soup).dd[1].large_green
                       ELSE SettledRegion(resp.soup).dd[1].large_red,
     settled_rate |-> MarkedText(SettledRegion(resp.soup).dd[1]),
     settled_3month |-> MarkedText(SettledRegion(resp.soup).dd[2]),
     settled_3year |-> MarkedText(SettledRegion(resp.soup).dd[3])]

(***************************************************************************)
(* State.                                                                  *)
(***************************************************************************)
VARIABLES
    interval,       \* config[CONF_UPDATE_INTERVAL], in ticks
    data,           \* EastmoneyData.data: Nothing or the Snapshot
    throttle,       \* the Throttle wrapper's stored time, as [called, age]
    setup_result,   \* "pending", or how setup_platform ended
    registered,     \* add_devices has been called with the sensor
    _state,         \* EastmoneySensor._state
    _trend,         \* EastmoneySensor._trend
    \* Observations, read by the properties only:
    call,           \* the call just made: what it was given and what it did
    attempt,        \* [called, age] of the last call the throttle let through
    source,         \* Extracted(page) of the page data was built from
    shown,          \* what the sensor displayed after the last successful poll
    last_poll_ok,   \* the last fetch made built a Snapshot
    ever_found      \* some EastmoneySensor.update has found a Snapshot

vars == <<interval, data, throttle, setup_result, registered, _state, _trend,
          call, attempt, source, shown, last_poll_ok, ever_found>>

Idle == [op |-> "none", fetched |-> FALSE, class |-> "none", exc |-> FALSE,
         update_exc |-> FALSE, changed |-> FALSE, built |-> FALSE, found |-> FALSE,
         gap |-> "none"]

\* How long after the previous call that was let through this one arrives.
Gap ==
    IF ~attempt.called THEN "first"
    ELSE IF attempt.age < interval THEN "before"
    ELSE IF attempt.age = interval THEN "at"
    ELSE "after"

\* What the sensor displays: state, icon's trend, device_state_attributes.
Display(d, state, trend) ==
    [state |-> state, trend |-> trend, attrs |-> device_state_attributes(d)]

\* The observations of one call (op: of setup_platform or of the sensor's
\* update) given resp, u being what the call did and update_exc whether
\* fund_data.update() raised in it.
Observe(op, resp, u, update_exc) ==
    \E built \in {u.fetched /\ ~update_exc /\ PassesIdentity(resp) /\ u.data # Nothing} :
        /\ call' = [op |-> op, fetched |-> u.fetched,
                    class |-> IF u.fetched THEN PollClass(resp) ELSE "none",
                    exc |-> u.exc, update_exc |-> update_exc,
                    changed |-> u.data # data, built |-> built,
                    found |-> IF op = "update" THEN u.found ELSE FALSE, gap |-> Gap]
        /\ attempt' = IF u.fetched THEN [called |-> TRUE, age |-> 0] ELSE attempt
        /\ source' = IF built THEN Extracted(resp) ELSE source
        /\ last_poll_ok' = IF u.fetched THEN built ELSE last_poll_ok

Init ==
    /\ interval \in 1..MaxInterval
    /\ data = Nothing
    /\ throttle = [called |-> FALSE, age |-> 0]
    /\ setup_result = "pending"
    /\ registered = FALSE
    /\ _state = None
    /\ _trend = -1
    /\ call = Idle
    /\ attempt = [called |-> FALSE, age |-> 0]
    /\ source = Nothing
    /\ shown = Nothing
    /\ last_poll_ok = FALSE
    /\ ever_found = FALSE

\* setup_platform: the first fund_data.update(), then False, or the sensor
\* (constructed with _state None and _trend -1) handed to add_devices.
setup_platform ==
    /\ setup_result = "pending"
    /\ \E resp \in Answers(throttle, interval) :
        \E u \in {ThrottledUpdate(data, throttle, interval, FundId, resp)} :
            /\ data' = u.data
            /\ throttle' = u.throttle
            /\ setup_result' = IF u.exc THEN "raised"
                               ELSE IF u.data = Nothing THEN "False"
                               ELSE "None"
            /\ registered' = (~u.exc /\ u.data # Nothing)
            /\ Observe("setup", resp, u, u.exc)
    /\ UNCHANGED <<interval, _state, _trend, shown, ever_found>>

\* The host calls EastmoneySensor.update(): at once after add_devices(.., True),
\* then on its schedule.
update ==
    /\ registered
    /\ \E resp \in Answers(throttle, interval) :
        \E u \in {SensorUpdate(data, throttle, _state, _trend, interval, FundId, resp)} :
            /\ data' = u.data
            /\ throttle' = u.throttle
            /\ _state' = u.state
            /\ _trend' = u.trend
            /\ Observe("update", resp, u, u.update_exc)
            /\ ever_found' = (ever_found \/ u.found)
    /\ shown' = IF last_poll_ok' THEN Display(data', _state', _trend') ELSE shown
    /\ UNCHANGED <<interval, setup_result, registered>>

\* The clock: one tick, counted up to just past the interval.
Tick ==
    /\ registered
    /\ throttle.age <= interval \/ attempt.age <= interval
    /\ throttle' = [throttle EXCEPT !.age = IF @ <= interval THEN @ + 1 ELSE @]
    /\ attempt' = [attempt EXCEPT !.age = IF @ <= interval THEN @ + 1 ELSE @]
    /\ call' = Idle
    /\ UNCHANGED <<interval, data, setup_result, registered, _state, _trend,
                   source, shown, last_poll_ok, ever_found>>

Next == setup_platform \/ update \/ Tick

Spec == Init /\ [][Next]_vars

(***************************************************************************)
(* Properties.                                                             *)
(***************************************************************************)
\* The text is a number below zero, above zero, zero.
IsNegative(text) == \E f \in {float(text)} : ~f.exc /\ f.ret < 0

IsPositive(text) == \E f \in {float(text)} : ~f.exc /\ f.ret > 0

IsZero(text) == \E f \in {float(text)} : ~f.exc /\ f.ret = 0

\* C1: a poll whose page passes the identity check but is structurally
\* defective leaves the Snapshot as it was before the poll.
C1_StructuralDefectKeepsSnapshot ==
    (call.fetched /\ call.class = "structural") => ~call.changed

\* C2: after a successful poll, a failed poll followed by the sensor's update
\* leaves the displayed state, trend and attributes as they were after the
\* last successful poll.
C2_FailedPollKeepsDisplay ==
    (call.op = "update" /\ call.fetched /\ ~call.built /\ shown # Nothing)
        => Display(data, _state, _trend) = shown

\* C3: every call of update(), the data's and the sensor's, returns without
\* raising, whatever page was fetched.
C3_UpdateNeverRaises == ~call.exc

\* C4: a call arriving before the interval has passed since the previous
\* call that was let through fetches nothing and leaves the Snapshot alone;
\* a call arriving after it has passed fetches.
C4_Throttle ==
    /\ call.gap = "before" => (~call.fetched /\ ~call.changed)
    /\ call.gap = "after" => call.fetched

\* C5: a poll that fails in transport, or whose title is absent, does not
\* split in two or names another fund, leaves the Snapshot as it was, and
\* fund_data.update() returns without raising.
C5_TransportOrIdentityFailureKeepsSnapshot ==
    (call.fetched /\ call.class \in {"transport", "identity"})
        => (~call.changed /\ ~call.update_exc)

\* C5's case: a page of another fund is fetched while a Snapshot is held.
C5_Witness ==
    /\ call.op = "update" /\ call.fetched /\ call.class = "identity"
    /\ data # Nothing

\* C6: setup makes one fetch; the sensor is registered exactly if the
\* Snapshot is there after it, and without a Snapshot setup returns False
\* and no sensor is registered, ever.
C6_SetupRegistersIffSnapshot ==
    /\ call.op = "setup" =>
        /\ call.fetched
        /\ registered <=> data # Nothing
        /\ data = Nothing => setup_result = "False"
    /\ setup_result = "False" => ~registered

\* C7: the stored estimate change is the extracted change text with one "-"
\* before it when the extracted rate, less its "%", is negative, and the
\* extracted change text itself otherwise; the settled value and rate are
\* the extracted texts.
C7_SignCorrection ==
    data # Nothing =>
        /\ data.est_nav.enav_rate = source.rate
        /\ data.est_nav.enav_growth =
              IF IsNegative(ButLast(source.rate)) THEN <<"-">> \o source.change
              ELSE source.change
        /\ data.nav.nav = source.settled_value
        /\ data.nav.nav_rate = source.settled_rate

\* C7's case: change 5 at rate -1.2% is stored as -5.
C7_Witness ==
    /\ data # Nothing
    /\ source.change = <<"5">>
    /\ source.rate = <<"-", "1", ".", "2", "%">>
    /\ data.est_nav.enav_growth = <<"-", "5">>

\* C8: after a sensor update that finds a Snapshot the state is the
\* Snapshot's estimate value and the trend is up (1), down (-1) or flat (0)
\* as the estimate change is above, below or equal to zero, with the icon
\* to match; before the first such update the icon is the downward one.
C8_DisplayFollowsSnapshot ==
    /\ (call.op = "update" /\ call.found) =>
        /\ data # Nothing
        /\ _state = data.est_nav.enav
        /\ IsPositive(data.est_nav.enav_growth)
              => (_trend = 1 /\ icon(_trend) = "mdi:trending-up")
        /\ IsNegative(data.est_nav.enav_growth)
              => (_trend = -1 /\ icon(_trend) = "mdi:trending-down")
        /\ IsZero(data.est_nav.enav_growth)
              => (_trend = 0 /\ icon(_trend) = "mdi:trending-neutral")
    /\ ~ever_found => icon(_trend) = "mdi:trending-down"

\* C8's case: an update finds a Snapshot whose change is zero.
C8_Witness ==
    /\ call.op = "update" /\ call.found
    /\ IsZero(data.est_nav.enav_growth)
    /\ _trend = 0

\* C9: the Snapshot is Nothing or complete: both groups, the estimate's
\* value and time, the settled value and date, last_update the estimate's
\* time, and both groups of one edition of the page.
C9_SnapshotComplete ==
    data # Nothing =>
        /\ data.est_nav # Nothing /\ data.nav # Nothing
        /\ data.est_nav.enav # None /\ data.est_nav.enav_time # None
        /\ data.nav.nav # None /\ data.nav.nav_date # None
        /\ data.last_update = data.est_nav.enav_time
        /\ \E e \in Editions :
              /\ data.est_nav.enav_time = EditionTime(e)
              /\ data.nav.nav_date = EditionDate(e)

\* C9's case: a poll replaces the Snapshot held by one of the other edition.
C9_Witness ==
    /\ call.op = "update" /\ call.built /\ call.changed
    /\ shown # Nothing
    /\ data.est_nav.enav_time = EditionTime(2)
    /\ data.nav.nav_date = EditionDate(2)

\* C10: the settled trailing-3-month and trailing-3-year figures stored are
\* the text of the element with the positive or the negative marker,
\* whichever is present, and unset only when neither is.
C10_SettledMarkers ==
    data # Nothing =>
        /\ data.nav.rct_3month = source.settled_3month
        /\ data.nav.rct_3year = source.settled_3year
====
